---- MODULE Spec2Model ----
(***************************************************************************)
(* Model of get-download-counts-from-galaxy.py: the fetch step, the JSON   *)
(* store (kept as the characters of the file), the JSON -> CSV -> Excel    *)
(* conversions, generate_dfs_with_summary and the two bar charts.          *)
(*                                                                         *)
(* Text is modelled as sequences of one-character strings, so that what    *)
(* is written to and parsed from the store is the text itself.             *)
(***************************************************************************)
EXTENDS Integers, Sequences, FiniteSets, TLC

\* ------------------------------------------------------------------------
\* Bounds of the model
\* ------------------------------------------------------------------------

\* last clock day (ordinal, counted from the epoch) a run can see
MaxDay == 90

\* largest number of records the store grows to
MaxRecords == 3

\* number of external (manual) edits of the store file
MaxEdits == 1

\* clock day of the initial state
InitDay == 60

\* the clock moves forward by one of these numbers of days
DaySteps == {15}

\* download counts ansible-galaxy can report (two lengths of digits)
Counts == {10, 500}

\* ------------------------------------------------------------------------
\* Characters and numbers
\* ------------------------------------------------------------------------

DigitChars == <<"0", "1", "2", "3", "4", "5", "6", "7", "8", "9">>

IsDigit(c) == \E i \in 1..10 : DigitChars[i] = c

DigitVal(c) == (CHOOSE i \in 1..10 : DigitChars[i] = c) - 1

AllDigits(s) == Len(s) > 0 /\ \A i \in 1..Len(s) : IsDigit(s[i])

\* int(text) for a text of digits
RECURSIVE DigitsToInt(_)
DigitsToInt(s) ==
    IF Len(s) = 0 THEN 0
    ELSE DigitsToInt(SubSeq(s, 1, Len(s) - 1)) * 10 + DigitVal(s[Len(s)])

\* str(n) for n >= 0
RECURSIVE IntToDigits(_)
IntToDigits(n) ==
    IF n < 10 THEN <<DigitChars[n + 1]>>
    ELSE IntToDigits(n \div 10) \o <<DigitChars[(n % 10) + 1]>>

\* n written with at least w digits, zero padded (%02d, %04d)
RECURSIVE ZeroPad(_, _)
ZeroPad(s, w) == IF Len(s) >= w THEN s ELSE ZeroPad(<<"0">> \o s, w)

\* ------------------------------------------------------------------------
\* Calendar (datetime): a clock day is an ordinal counted from the epoch
\* ------------------------------------------------------------------------

\* the first day of this month is clock day 0
Epoch == [y |-> 2023, m |-> 12]

IsLeap(y) == (y % 4 = 0 /\ y % 100 # 0) \/ y % 400 = 0

DaysInMonth(y, m) ==
    IF m = 2 THEN (IF IsLeap(y) THEN 29 ELSE 28)
    ELSE IF m \in {4, 6, 9, 11} THEN 30 ELSE 31

\* the calendar date of the n-th day counted from the first day of (y, m)
RECURSIVE DateFrom(_, _, _)
DateFrom(y, m, n) ==
    IF n < DaysInMonth(y, m) THEN [y |-> y, m |-> m, d |-> n + 1]
    ELSE IF m = 12 THEN DateFrom(y + 1, 1, n - DaysInMonth(y, m))
    ELSE DateFrom(y, m + 1, n - DaysInMonth(y, m))

DateOfDay(n) == DateFrom(Epoch.y, Epoch.m, n)

\* datetime.strftime('%Y%m%d')
StrfYmd(dt) ==
    ZeroPad(IntToDigits(dt.y), 4) \o ZeroPad(IntToDigits(dt.m), 2)
        \o ZeroPad(IntToDigits(dt.d), 2)

\* Series.dt.strftime('%Y/%m')
StrfYearMonth(dt) ==
    ZeroPad(IntToDigits(dt.y), 4) \o <<"/">> \o ZeroPad(IntToDigits(dt.m), 2)

\* the order of two datetimes (a time of day tod: 0 is midnight)
DtKey(dt) == dt.y * 10000 + dt.m * 100 + dt.d

DtGeq(a, atod, b, btod) ==
    DtKey(a) > DtKey(b) \/ (DtKey(a) = DtKey(b) /\ atod >= btod)

\* ------------------------------------------------------------------------
\* JSON text of the store: json.dump(file_data, file, indent=4), json.load
\* ------------------------------------------------------------------------

NL == "\n"

QUOTE == "\""

Spaces(n) == [i \in 1..n |-> " "]

KeyDate == <<QUOTE, "d", "a", "t", "e", QUOTE>>

KeyCount == <<QUOTE, "d", "o", "w", "n", "l", "o", "a", "d", "_",
              "c", "o", "u", "n", "t", QUOTE>>

\* a JSON scalar: an int, or a string of characters
JInt(n) == [t |-> "int", v |-> n, s |-> <<>>]

JStr(chars) == [t |-> "str", v |-> 0, s |-> chars]

DumpScalar(x) ==
    IF x.t = "int" THEN IntToDigits(x.v) ELSE <<QUOTE>> \o x.s \o <<QUOTE>>

\* one record, at indent level 1 of the list
DumpRecord(r) ==
    Spaces(4) \o <<"{", NL>>
      \o Spaces(8) \o KeyDate \o <<":", " ">> \o DumpScalar(r.date) \o <<",", NL>>
      \o Spaces(8) \o KeyCount \o <<":", " ">> \o DumpScalar(r.download_count)
      \o <<NL>> \o Spaces(4) \o <<"}">>

RECURSIVE DumpRecords(_)
DumpRecords(data) ==
    IF Len(data) = 1 THEN DumpRecord(data[1])
    ELSE DumpRecord(data[1]) \o <<",", NL>> \o DumpRecords(Tail(data))

\* json.dump(data, file, indent=4): the text written
JsonDump(data) ==
    IF Len(data) = 0 THEN <<"[", "]">>
    ELSE <<"[", NL>> \o DumpRecords(data) \o <<NL, "]">>

IsWs(c) == c \in {" ", NL}

\* first position from i on that holds no white space (Len(s) + 1 at the end)
RECURSIVE SkipWs(_, _)
SkipWs(s, i) == IF i <= Len(s) /\ IsWs(s[i]) THEN SkipWs(s, i + 1) ELSE i

\* the text lit stands at position i of s
Match(s, i, lit) ==
    i + Len(lit) - 1 <= Len(s) /\ SubSeq(s, i, i + Len(lit) - 1) = lit

\* first position from i on that holds no digit
RECURSIVE SkipDigits(_, _)
SkipDigits(s, i) == IF i <= Len(s) /\ IsDigit(s[i]) THEN SkipDigits(s, i + 1) ELSE i

\* position of the next quote from i on (Len(s) + 1 when there is none)
RECURSIVE FindQuote(_, _)
FindQuote(s, i) == IF i <= Len(s) /\ s[i] # QUOTE THEN FindQuote(s, i + 1) ELSE i

NoParse == [ok |-> FALSE, next |-> 0, val |-> JInt(0)]

\* the digits from position i to position j - 1
IntScalar(s, i, j) ==
    [ok |-> TRUE, next |-> j, val |-> JInt(DigitsToInt(SubSeq(s, i, j - 1)))]

\* the string from the quote at position i to the quote at position j
StrScalar(s, i, j) ==
    IF j > Len(s) THEN NoParse
    ELSE [ok |-> TRUE, next |-> j + 1, val |-> JStr(SubSeq(s, i + 1, j - 1))]

\* a scalar at position i: digits, or a quoted string
ParseScalar(s, i) ==
    IF i > Len(s) THEN NoParse
    ELSE IF IsDigit(s[i]) THEN IntScalar(s, i, SkipDigits(s, i))
    ELSE IF s[i] = QUOTE THEN StrScalar(s, i, FindQuote(s, i + 1))
    ELSE NoParse

\* the tokens of an object {"date": scalar, "download_count": scalar}
Lit(chars) == [lit |-> TRUE, text |-> chars]

Value == [lit |-> FALSE, text |-> <<>>]

RecordShape ==
    <<Lit(<<"{">>), Lit(KeyDate), Lit(<<":">>), Value, Lit(<<",">>),
      Lit(KeyCount), Lit(<<":">>), Value, Lit(<<"}">>)>>

NoFields == [ok |-> FALSE, next |-> 0, vals |-> <<>>]

RECURSIVE ParseFields(_, _, _, _)
\* the first token of shape stands at position j, or the scalar v does
ParseField(s, j, v, shape, vals) ==
    IF shape[1].lit
    THEN IF Match(s, j, shape[1].text)
         THEN ParseFields(s, j + Len(shape[1].text), Tail(shape), vals)
         ELSE NoFields
    ELSE IF v.ok
         THEN ParseFields(s, v.next, Tail(shape), Append(vals, v.val))
         ELSE NoFields

\* the tokens of shape from position i on, with white space between them:
\* ok, the position behind them and the scalars read
ParseFields(s, i, shape, vals) ==
    IF Len(shape) = 0 THEN [ok |-> TRUE, next |-> i, vals |-> vals]
    ELSE IF shape[1].lit THEN ParseField(s, SkipWs(s, i), NoParse, shape, vals)
    ELSE ParseField(s, 0, ParseScalar(s, SkipWs(s, i)), shape, vals)

NoRecord == [ok |-> FALSE, next |-> 0,
             val |-> [date |-> JInt(0), download_count |-> JInt(0)]]

\* the object whose tokens are r
RecordOf(r) ==
    IF r.ok
    THEN [ok |-> TRUE, next |-> r.next,
          val |-> [date |-> r.vals[1], download_count |-> r.vals[2]]]
    ELSE NoRecord

\* an object {"date": scalar, "download_count": scalar} at position i
ParseRecord(s, i) == RecordOf(ParseFields(s, i, RecordShape, <<>>))

NoList == [ok |-> FALSE, next |-> 0, data |-> <<>>]

RECURSIVE ParseItems(_, _, _)
\* behind the record r, at position j: a comma and more records, or "]"
ParseItemsAfter(s, j, r, acc) ==
    IF Match(s, j, <<",">>)
    THEN ParseItems(s, SkipWs(s, j + 1), Append(acc, r.val))
    ELSE IF Match(s, j, <<"]">>)
    THEN [ok |-> TRUE, next |-> j + 1, data |-> Append(acc, r.val)]
    ELSE NoList

ParseItem(s, r, acc) ==
    IF ~r.ok THEN NoList ELSE ParseItemsAfter(s, SkipWs(s, r.next), r, acc)

\* the records of a list after its "[", the first of them at position i
ParseItems(s, i, acc) == ParseItem(s, ParseRecord(s, i), acc)

\* the list l is the whole text, but for white space behind it
WholeText(s, l) == IF l.ok /\ SkipWs(s, l.next) = Len(s) + 1 THEN l ELSE NoList

\* the list whose "[" is followed, after white space, by position j
ParseList(s, j) ==
    IF Match(s, j, <<"]">>)
    THEN WholeText(s, [ok |-> TRUE, next |-> j + 1, data |-> <<>>])
    ELSE WholeText(s, ParseItems(s, j, <<>>))

ParseDocument(s, i) ==
    IF ~Match(s, i, <<"[">>) THEN NoList ELSE ParseList(s, SkipWs(s, i + 1))

\* json.load(file): ok and the record list, or not ok (JSONDecodeError),
\* also when anything but white space follows the document ("Extra data")
JsonLoad(s) == ParseDocument(s, SkipWs(s, 1))

\* ------------------------------------------------------------------------
\* Tables: CSV text cells, typed Excel cells, DataFrames
\* ------------------------------------------------------------------------

\* a DataFrame (or sheet) without columns: pd.DataFrame()
EmptyFrame == [cols |-> FALSE, rows |-> <<>>]

Frame(rows) == [cols |-> TRUE, rows |-> rows]

NoFile == [exists |-> FALSE, cols |-> FALSE, rows |-> <<>>]

\* str(value) as DataFrame.to_csv writes a cell
CsvCell(x) == IF x.t = "int" THEN IntToDigits(x.v) ELSE x.s

\* pd.DataFrame(data).to_csv(csv_file, index=False, sep=';'): the text cells;
\* a list without records gives a file without a header line
ToCsv(data) ==
    IF Len(data) = 0 THEN EmptyFrame
    ELSE Frame([i \in 1..Len(data) |->
                   [date |-> CsvCell(data[i].date),
                    download_count |-> CsvCell(data[i].download_count)]])

\* pd.read_csv type inference: a column whose cells are all digits is an
\* integer column, any other column keeps its texts
CsvColumnIsInt(rows, col) ==
    \A i \in 1..Len(rows) :
        IF col = "date" THEN AllDigits(rows[i].date)
        ELSE AllDigits(rows[i].download_count)

CsvValue(isint, text) == IF isint THEN JInt(DigitsToInt(text)) ELSE JStr(text)

ReadCsv(rows) ==
    LET di == CsvColumnIsInt(rows, "date")
        ci == CsvColumnIsInt(rows, "download_count")
    IN  [i \in 1..Len(rows) |->
            [date |-> CsvValue(di, rows[i].date),
             download_count |-> CsvValue(ci, rows[i].download_count)]]

\* mutant of ToDatetime: a text that is no date is taken as it is
ToDatetime_Unchecked(x) ==
    LET n == DigitsToInt(CsvCell(x))
    IN  [ok |-> TRUE, dt |-> [y |-> n \div 10000, m |-> (n \div 100) % 100,
                              d |-> n % 100]]

\* pd.to_datetime(value, format='%Y%m%d'): ok and the datetime, or not ok
\* (ValueError)
ToDatetime(x) ==
    LET txt == CsvCell(x)
        n == DigitsToInt(txt)
        y == n \div 10000
        m == (n \div 100) % 100
        d == n % 100
    IN  IF Len(txt) = 8 /\ AllDigits(txt) /\ y >= 1 /\ m \in 1..12
           /\ d >= 1 /\ d <= DaysInMonth(y, m)
        THEN [ok |-> TRUE, dt |-> [y |-> y, m |-> m, d |-> d]]
        ELSE [ok |-> FALSE, dt |-> [y |-> 0, m |-> 0, d |-> 0]]

\* df.sort_values(by='date'): insertion of a row into rows sorted by date
RECURSIVE InsertByDate(_, _)
InsertByDate(sorted, r) ==
    IF Len(sorted) = 0 THEN <<r>>
    ELSE IF DtKey(sorted[Len(sorted)].date) <= DtKey(r.date)
         THEN Append(sorted, r)
         ELSE Append(InsertByDate(SubSeq(sorted, 1, Len(sorted) - 1), r),
                     sorted[Len(sorted)])

RECURSIVE SortByDate(_)
SortByDate(rows) ==
    IF Len(rows) = 0 THEN <<>>
    ELSE InsertByDate(SortByDate(SubSeq(rows, 1, Len(rows) - 1)), rows[Len(rows)])

\* mutant of Diff: a negative difference is reported as 0
Diff_Clamped(rows) ==
    [i \in 1..Len(rows) |->
        IF i = 1 \/ rows[i].download_count.v < rows[i - 1].download_count.v THEN 0
        ELSE rows[i].download_count.v - rows[i - 1].download_count.v]

\* mutant of Diff: the difference to the first count
Diff_FromFirst(rows) ==
    [i \in 1..Len(rows) |->
        rows[i].download_count.v - rows[1].download_count.v]

\* df['download_count'].diff().fillna(0).astype(int)
Diff(rows) ==
    [i \in 1..Len(rows) |->
        IF i = 1 THEN 0
        ELSE rows[i].download_count.v - rows[i - 1].download_count.v]

\* days of timedelta(days=30)
WindowDays == 30

\* mutant of InLast30Days: > in the place of >=
InLast30Days_Strict(dt, day, tod) ==
    ~DtGeq(DateOfDay(day - WindowDays), tod, dt, 0)

\* df_daily_downloads[df_daily_downloads['date'] >= thirty_days_ago], where
\* the dates are at midnight and now is clock day `day` at time of day `tod`
InLast30Days(dt, day, tod) == DtGeq(dt, 0, DateOfDay(day - WindowDays), tod)

RECURSIVE SelectRows(_, _, _)
SelectRows(rows, day, tod) ==
    IF Len(rows) = 0 THEN <<>>
    ELSE LET rest == SelectRows(Tail(rows), day, tod)
         IN  IF InLast30Days(rows[1].date, day, tod)
             THEN <<rows[1]>> \o rest ELSE rest

\* ------------------------------------------------------------------------
\* pivot_table(index='month_year', values='daily_downloads', aggfunc='sum',
\*             margins=True, margins_name='Total Result')
\* ------------------------------------------------------------------------

TotalResult == <<"T", "o", "t", "a", "l", " ", "R", "e", "s", "u", "l", "t">>

\* the characters of the keys, in the order of their codes
Alphabet == <<" ", "/", "0", "1", "2", "3", "4", "5", "6", "7", "8", "9",
              "R", "T", "a", "e", "l", "o", "s", "t", "u">>

Code(c) == CHOOSE i \in 1..Len(Alphabet) : Alphabet[i] = c

\* a <= b for two texts, as Python compares str
RECURSIVE LexLeq(_, _)
LexLeq(a, b) ==
    IF Len(a) = 0 THEN TRUE
    ELSE IF Len(b) = 0 THEN FALSE
    ELSE IF Code(a[1]) < Code(b[1]) THEN TRUE
    ELSE IF Code(a[1]) > Code(b[1]) THEN FALSE
    ELSE LexLeq(Tail(a), Tail(b))

RECURSIVE SumSeq(_)
SumSeq(q) == IF Len(q) = 0 THEN 0 ELSE q[1] + SumSeq(Tail(q))

\* mutant of GroupSum: aggfunc='last'
RECURSIVE GroupSum_Last(_, _)
GroupSum_Last(rows, key) ==
    IF Len(rows) = 0 THEN 0
    ELSE IF rows[Len(rows)].month_year = key THEN rows[Len(rows)].daily_downloads
    ELSE GroupSum_Last(SubSeq(rows, 1, Len(rows) - 1), key)

\* sum of daily_downloads over the rows whose month_year is key
RECURSIVE GroupSum(_, _)
GroupSum(rows, key) ==
    IF Len(rows) = 0 THEN 0
    ELSE (IF rows[1].month_year = key THEN rows[1].daily_downloads ELSE 0)
            + GroupSum(Tail(rows), key)

\* insertion of a row into rows sorted by month_year
RECURSIVE InsertByKey(_, _)
InsertByKey(sorted, r) ==
    IF Len(sorted) = 0 THEN <<r>>
    ELSE IF LexLeq(sorted[Len(sorted)].month_year, r.month_year)
         THEN Append(sorted, r)
         ELSE Append(InsertByKey(SubSeq(sorted, 1, Len(sorted) - 1), r),
                     sorted[Len(sorted)])

\* sort_values(by='month_year')
RECURSIVE SortByKey(_)
SortByKey(rows) ==
    IF Len(rows) = 0 THEN <<>>
    ELSE InsertByKey(SortByKey(SubSeq(rows, 1, Len(rows) - 1)), rows[Len(rows)])

\* one row per group, in the order of first occurrence
RECURSIVE GroupRows(_, _, _)
GroupRows(rows, i, seen) ==
    IF i > Len(rows) THEN <<>>
    ELSE IF rows[i].month_year \in seen THEN GroupRows(rows, i + 1, seen)
    ELSE <<[month_year |-> rows[i].month_year,
            monthly |-> GroupSum(rows, rows[i].month_year)]>>
            \o GroupRows(rows, i + 1, seen \cup {rows[i].month_year})

\* the margin row: the aggregate over all the rows
MarginRow(rows) ==
    [month_year |-> TotalResult,
     monthly |-> SumSeq([i \in 1..Len(rows) |-> rows[i].daily_downloads])]

PivotMonthly(rows) ==
    SortByKey(Append(SortByKey(GroupRows(rows, 1, {})), MarginRow(rows)))

\* ------------------------------------------------------------------------
\* State
\* ------------------------------------------------------------------------

VARIABLES
    today,          \* the calendar day of the clock (datetime.now())
    json_file,      \* data/download_counts.json: the store, as text
    csv_file,       \* data/download_counts.csv
    excel_file,     \* data/download_counts.xlsx
    svg_daily,      \* docs/download_counts_daily.svg
    svg_monthly,    \* docs/download_counts_monthly.svg
    edits,          \* number of external edits of the store made so far
    pc,             \* position of the running script in __main__
    args_fetch,     \* --fetch
    download_count, \* result of get_download_count()
    df,             \* result of read_excel
    gdf,            \* df inside generate_dfs_with_summary, with its new columns
    gen,            \* how generate_dfs_with_summary ended, and its datetime.now()
    total_download, \* its three results
    df_daily,
    df_monthly,
    exit_status,    \* exit status of the script, -1 while there is none
    raised,         \* the exception that ended the script
    prev            \* the last run, when it was one without --fetch: the
                    \* store it left and its results

files == <<json_file, csv_file, excel_file, svg_daily, svg_monthly>>

locals == <<args_fetch, download_count, df, gdf, gen, total_download,
            df_daily, df_monthly, prev>>

vars == <<today, json_file, csv_file, excel_file, svg_daily, svg_monthly,
          edits, pc, args_fetch, download_count, df, gdf, gen,
          total_download, df_daily, df_monthly, exit_status, raised, prev>>

NoText == [exists |-> FALSE, content |-> <<>>]

NoChart == [exists |-> FALSE, bars |-> <<>>, total |-> 0]

NoneCount == [some |-> FALSE, v |-> 0]

NoGen == [ran |-> FALSE, ok |-> FALSE, day |-> 0, tod |-> 0]

NoPrev == [valid |-> FALSE, json |-> NoText, gen |-> NoGen, total |-> 0,
           daily |-> EmptyFrame, monthly |-> EmptyFrame, status |-> -1]

Init ==
    /\ today = InitDay
    /\ json_file = NoText
    /\ csv_file = NoFile
    /\ excel_file = NoFile
    /\ svg_daily = NoChart
    /\ svg_monthly = NoChart
    /\ edits = 0
    /\ pc = "idle"
    /\ args_fetch = FALSE
    /\ download_count = NoneCount
    /\ df = EmptyFrame
    /\ gdf = <<>>
    /\ gen = NoGen
    /\ total_download = 0
    /\ df_daily = EmptyFrame
    /\ df_monthly = EmptyFrame
    /\ exit_status = -1
    /\ raised = "none"
    /\ prev = NoPrev

\* the records of the store, <<>> when the file is missing or does not load
StoreLoads == json_file.exists /\ JsonLoad(json_file.content).ok

StoreData == IF StoreLoads THEN JsonLoad(json_file.content).data ELSE <<>>

TodayStr == StrfYmd(DateOfDay(today))

HasDate(data, datestr) == \E i \in 1..Len(data) : data[i].date = JStr(datestr)

\* ------------------------------------------------------------------------
\* The environment: the clock, and a manual edit of the store file
\* ------------------------------------------------------------------------

\* The clock moves on, between two runs of the script.
Tick(step) ==
    /\ pc \in {"idle", "exit"}
    /\ today + step <= MaxDay
    /\ today' = today + step
    /\ UNCHANGED <<files, edits, pc, locals, exit_status, raised>>

BadDate == <<"2", "0", "2", "4", "1", "3", "4", "5">>

BadCount == <<"n", "/", "a">>

\* A malformed record is added by hand to a store that has valid records:
\* one with a date that is no calendar date, or one with a count that is
\* no number.
ExternalEdit(kind) ==
    /\ pc \in {"idle", "exit"}
    /\ edits < MaxEdits
    /\ StoreLoads
    /\ Len(StoreData) >= 1
    /\ ~HasDate(StoreData, TodayStr)
    /\ \E c \in Counts :
         LET rec == IF kind = "bad_date"
                    THEN [date |-> JStr(BadDate), download_count |-> JInt(c)]
                    ELSE [date |-> JStr(TodayStr), download_count |-> JStr(BadCount)]
         IN  json_file' = [exists |-> TRUE,
                           content |-> JsonDump(Append(StoreData, rec))]
    /\ edits' = edits + 1
    /\ UNCHANGED <<today, csv_file, excel_file, svg_daily, svg_monthly, pc,
                   locals, exit_status, raised>>

\* ------------------------------------------------------------------------
\* __main__
\* ------------------------------------------------------------------------

\* the script ends with the given status: its memory is gone; what a run
\* without --fetch computed is kept for the comparison with the next run
Exit(status, exception) ==
    /\ pc' = "exit"
    /\ exit_status' = status
    /\ raised' = exception
    /\ prev' = IF args_fetch THEN NoPrev
               ELSE [valid |-> TRUE, json |-> json_file, gen |-> gen,
                     total |-> total_download, daily |-> df_daily,
                     monthly |-> df_monthly, status |-> status]
    /\ download_count' = NoneCount
    /\ df' = EmptyFrame
    /\ gdf' = <<>>
    /\ gen' = NoGen
    /\ total_download' = 0
    /\ df_daily' = EmptyFrame
    /\ df_monthly' = EmptyFrame
    /\ UNCHANGED args_fetch

\* mutant of StartRun: the count is fetched whether --fetch is given or not
StartRun_AlwaysFetch(fetch) ==
    /\ pc \in {"idle", "exit"}
    /\ pc' = "fetch"
    /\ args_fetch' = fetch
    /\ prev' = IF fetch THEN NoPrev ELSE prev
    /\ exit_status' = -1
    /\ raised' = "none"
    /\ UNCHANGED <<today, files, edits, download_count, df, gdf, gen,
                   total_download, df_daily, df_monthly>>

\* the script is started, with or without --fetch
StartRun(fetch) ==
    /\ pc \in {"idle", "exit"}
    /\ pc' = IF fetch THEN "fetch" ELSE "convert_csv"
    /\ args_fetch' = fetch
    /\ prev' = IF fetch THEN NoPrev ELSE prev
    /\ exit_status' = -1
    /\ raised' = "none"
    /\ UNCHANGED <<today, files, edits, download_count, df, gdf, gen,
                   total_download, df_daily, df_monthly>>

\* get_download_count: ansible-galaxy prints download_count: c
GetDownloadCountFound(c) ==
    /\ pc = "fetch"
    /\ Len(StoreData) < MaxRecords \/ HasDate(StoreData, TodayStr)
    /\ download_count' = [some |-> TRUE, v |-> c]
    /\ pc' = "fetched"
    /\ UNCHANGED <<today, files, edits, args_fetch, df, gdf, gen, total_download,
                   df_daily, df_monthly, exit_status, raised, prev>>

\* get_download_count: the command fails (CalledProcessError), or its
\* output has no download_count; both return None
GetDownloadCountNone(why) ==
    /\ pc = "fetch"
    /\ why \in {"CalledProcessError", "no match"}
    /\ download_count' = NoneCount
    /\ pc' = "fetched"
    /\ UNCHANGED <<today, files, edits, args_fetch, df, gdf, gen, total_download,
                   df_daily, df_monthly, exit_status, raised, prev>>

\* the for/else loop of write_download_count_to_json: the first record of
\* the date gets the count, or the new record is appended
RECURSIVE UpdateFirst(_, _, _)
UpdateFirst(file_data, datestr, c) ==
    IF Len(file_data) = 0
    THEN <<[date |-> JStr(datestr), download_count |-> JInt(c)]>>
    ELSE IF file_data[1].date = JStr(datestr)
         THEN <<[file_data[1] EXCEPT !.download_count = JInt(c)]>> \o Tail(file_data)
         ELSE <<file_data[1]>> \o UpdateFirst(Tail(file_data), datestr, c)

\* file.seek(0); json.dump(...) on a file opened 'r+': the new text replaces
\* the first characters of the old text, what is behind them stays
WriteAtStart(old, new) ==
    IF Len(new) >= Len(old) THEN new
    ELSE new \o SubSeq(old, Len(new) + 1, Len(old))

\* write_download_count_to_json(download_count, json_filename)
WriteDownloadCountToJson ==
    /\ pc = "fetched"
    /\ download_count.some
    /\ LET current_date == TodayStr
           c == download_count.v
           loaded == JsonLoad(json_file.content)
       IN  IF ~json_file.exists
           THEN \* FileNotFoundError: the file is created
                /\ json_file' = [exists |-> TRUE,
                      content |-> JsonDump(<<[date |-> JStr(current_date),
                                              download_count |-> JInt(c)]>>)]
                /\ pc' = "convert_csv"
                /\ UNCHANGED <<locals, exit_status, raised>>
           ELSE IF ~loaded.ok
           THEN \* JSONDecodeError is not caught: the script ends
                /\ Exit(1, "JSONDecodeError")
                /\ UNCHANGED json_file
           ELSE /\ json_file' = [exists |-> TRUE,
                      content |-> WriteAtStart(json_file.content,
                          JsonDump(UpdateFirst(loaded.data, current_date, c)))]
                /\ pc' = "convert_csv"
                /\ UNCHANGED <<locals, exit_status, raised>>
    /\ UNCHANGED <<today, csv_file, excel_file, svg_daily, svg_monthly, edits>>

\* mutant of ExitNoCount: the missing count is logged and the run goes on
ExitNoCount_Continues ==
    /\ pc = "fetched"
    /\ ~download_count.some
    /\ pc' = "convert_csv"
    /\ UNCHANGED <<today, files, edits, locals, exit_status, raised>>

\* download_count is None: logger.error and exit(1)
ExitNoCount ==
    /\ pc = "fetched"
    /\ ~download_count.some
    /\ Exit(1, "SystemExit")
    /\ UNCHANGED <<today, files, edits>>

\* Processing.convert_json_to_csv(json_filename, csv_file); every exception
\* (no file, JSONDecodeError) is logged and the old CSV file stays
ConvertJsonToCsv ==
    /\ pc = "convert_csv"
    /\ csv_file' = IF StoreLoads
                   THEN [exists |-> TRUE] @@ ToCsv(StoreData)
                   ELSE csv_file
    /\ pc' = "convert_excel"
    /\ UNCHANGED <<today, json_file, excel_file, svg_daily, svg_monthly, edits,
                   locals, exit_status, raised>>

\* Processing.convert_csv_to_excel(csv_file, excel_file); every exception
\* (no file, EmptyDataError of read_csv) is logged and the old Excel file stays
ConvertCsvToExcel ==
    /\ pc = "convert_excel"
    /\ excel_file' = IF csv_file.exists /\ csv_file.cols
                     THEN [exists |-> TRUE] @@ Frame(ReadCsv(csv_file.rows))
                     ELSE excel_file
    /\ pc' = "read_excel"
    /\ UNCHANGED <<today, json_file, csv_file, svg_daily, svg_monthly, edits,
                   locals, exit_status, raised>>

\* the rows with the labels of the RangeIndex, 0, 1, ...
WithIndex(rows) ==
    [i \in 1..Len(rows) |->
        [index |-> i - 1, date |-> rows[i].date,
         download_count |-> rows[i].download_count]]

\* Processing.read_excel(excel_file): the sheet, or pd.DataFrame() on any
\* exception
ReadExcel ==
    /\ pc = "read_excel"
    /\ df' = IF excel_file.exists /\ excel_file.cols
             THEN Frame(WithIndex(excel_file.rows))
             ELSE EmptyFrame
    /\ pc' = "generate"
    /\ UNCHANGED <<today, files, edits, args_fetch, download_count, gdf, gen,
                   total_download, df_daily, df_monthly, exit_status, raised,
                   prev>>

\* the except branch of generate_dfs_with_summary
GenFailed ==
    [ok |-> FALSE, total |-> 0, daily |-> EmptyFrame, monthly |-> EmptyFrame,
     gdf |-> <<>>]

\* df['date'] = pd.to_datetime(...); df['month_year'] = ...strftime('%Y/%m')
WithDates(rows) ==
    [i \in 1..Len(rows) |->
        LET dt == ToDatetime(rows[i].date).dt
        IN  [index |-> rows[i].index, date |-> dt,
             download_count |-> rows[i].download_count,
             month_year |-> StrfYearMonth(dt)]]

\* df['daily_downloads'] = ...
WithDaily(rows) ==
    [i \in 1..Len(rows) |->
        [index |-> rows[i].index, date |-> rows[i].date,
         download_count |-> rows[i].download_count,
         month_year |-> rows[i].month_year,
         daily_downloads |-> Diff(rows)[i]]]

\* df[['date', 'daily_downloads']].rename(...).reset_index()
DailyColumns(rows) ==
    [i \in 1..Len(rows) |->
        [index |-> rows[i].index, date |-> rows[i].date,
         daily |-> rows[i].daily_downloads]]

\* Processing.generate_dfs_with_summary(df), run at clock day `day` and time
\* of day `tod`
GenerateDfsWithSummary(dframe, day, tod) ==
    IF ~dframe.cols THEN GenFailed                        \* KeyError: 'date'
    ELSE IF \E i \in 1..Len(dframe.rows) : ~ToDatetime(dframe.rows[i].date).ok
    THEN GenFailed                                        \* ValueError
    ELSE IF Len(dframe.rows) = 0 THEN GenFailed           \* IndexError
    ELSE IF \E i \in 1..Len(dframe.rows) : dframe.rows[i].download_count.t # "int"
    THEN GenFailed          \* TypeError in diff(): a text minus a text (the
                            \* frame has other rows, see ExternalEdit)
    ELSE LET sorted == SortByDate(WithDates(dframe.rows))
             full == WithDaily(sorted)
         IN  [ok |-> TRUE,
              total |-> sorted[Len(sorted)].download_count.v,
              daily |-> Frame(SelectRows(DailyColumns(full), day, tod)),
              monthly |-> Frame(PivotMonthly(full)),
              gdf |-> full]

\* total_download, df_daily, df_monthly = processing.generate_dfs_with_summary(df)
Generate ==
    /\ pc = "generate"
    /\ \E tod \in {0, 1} :
         LET res == GenerateDfsWithSummary(df, today, tod)
         IN  /\ total_download' = res.total
             /\ df_daily' = res.daily
             /\ df_monthly' = res.monthly
             /\ gdf' = res.gdf
             /\ gen' = [ran |-> TRUE, ok |-> res.ok, day |-> today, tod |-> tod]
    /\ pc' = "chart_daily"
    /\ UNCHANGED <<today, files, edits, args_fetch, download_count, df,
                   exit_status, raised, prev>>

\* df = df[df[x_column] != 'Total Result'] of the monthly frame
RECURSIVE ExcludeTotal(_)
ExcludeTotal(rows) ==
    IF Len(rows) = 0 THEN <<>>
    ELSE IF rows[1].month_year # TotalResult
         THEN <<rows[1]>> \o ExcludeTotal(Tail(rows))
         ELSE ExcludeTotal(Tail(rows))

\* create_barchart_from_df(df=df_daily, ..., x_column='date',
\* y_column='Daily downloads'); a frame without the column raises KeyError,
\* which nothing catches
CreateBarchartDaily ==
    /\ pc = "chart_daily"
    /\ IF ~df_daily.cols
       THEN /\ Exit(1, "KeyError")
            /\ UNCHANGED svg_daily
       ELSE /\ svg_daily' =
                [exists |-> TRUE,
                 bars |-> [i \in 1..Len(df_daily.rows) |->
                             [x |-> df_daily.rows[i].date,
                              height |-> df_daily.rows[i].daily]],
                 total |-> total_download]
            /\ pc' = "chart_monthly"
            /\ UNCHANGED <<locals, exit_status, raised>>
    /\ UNCHANGED <<today, json_file, csv_file, excel_file, svg_monthly, edits>>

\* create_barchart_from_df(df=df_monthly, ..., x_column='month_year',
\* y_column='Monthly downloads'), then the script ends
CreateBarchartMonthly ==
    /\ pc = "chart_monthly"
    /\ IF ~df_monthly.cols
       THEN /\ Exit(1, "KeyError")
            /\ UNCHANGED svg_monthly
       ELSE /\ svg_monthly' =
                [exists |-> TRUE,
                 bars |-> LET rows == ExcludeTotal(df_monthly.rows)
                          IN  [i \in 1..Len(rows) |->
                                 [x |-> rows[i].month_year,
                                  height |-> rows[i].monthly]],
                 total |-> total_download]
            /\ Exit(0, "none")
    /\ UNCHANGED <<today, json_file, csv_file, excel_file, svg_daily, edits>>

Next ==
    \/ \E step \in DaySteps : Tick(step)
    \/ \E kind \in {"bad_date", "bad_count"} : ExternalEdit(kind)
    \/ \E fetch \in BOOLEAN : StartRun(fetch)
    \/ \E c \in Counts : GetDownloadCountFound(c)
    \/ \E why \in {"CalledProcessError", "no match"} : GetDownloadCountNone(why)
    \/ WriteDownloadCountToJson
    \/ ExitNoCount
    \/ ConvertJsonToCsv
    \/ ConvertCsvToExcel
    \/ ReadExcel
    \/ Generate
    \/ CreateBarchartDaily
    \/ CreateBarchartMonthly

Spec == Init /\ [][Next]_vars

\* ------------------------------------------------------------------------
\* Properties
\* ------------------------------------------------------------------------

\* the step of write_download_count_to_json on a store that loads
WriteStep == pc = "fetched" /\ download_count.some /\ StoreLoads

\* C10: the store is rewritten in full: after write_download_count_to_json
\* on an existing store the file is exactly the serialization of a record
\* list, with nothing of the old text behind it, so that it loads again.
C10_RewrittenInFull ==
    [][WriteStep =>
        LET l == JsonLoad(json_file'.content)
        IN  l.ok /\ json_file'.content = JsonDump(l.data)]_vars

\* C1: overwrite law: after a write every date is in exactly one record of
\* the store; a write for a date of the store replaces the count of its
\* record and leaves the number of records and the other records as they
\* were, a write for a new date appends one record.
C1_OverwriteLaw ==
    [][WriteStep =>
        LET old == StoreData
            l == JsonLoad(json_file'.content)
            new == l.data
            d == JStr(TodayStr)
            c == JInt(download_count.v)
        IN  /\ l.ok
            /\ \A i, j \in 1..Len(new) : new[i].date = new[j].date => i = j
            /\ IF \E i \in 1..Len(old) : old[i].date = d
               THEN /\ Len(new) = Len(old)
                    /\ \A i \in 1..Len(old) :
                         /\ new[i].date = old[i].date
                         /\ new[i].download_count =
                              IF old[i].date = d THEN c ELSE old[i].download_count
               ELSE new = Append(old, [date |-> d, download_count |-> c])]_vars

\* C2, as claimed: when get_download_count yields no count the run goes on
\* to the normalization with the store as it is, and does not end with a
\* status other than 0.
C2_SourceUnavailableNonFatal ==
    [][(pc = "fetched" /\ ~download_count.some) =>
        (json_file' = json_file /\ pc' = "convert_csv" /\ exit_status' # 1)]_vars

\* C2, amended: when get_download_count yields no count the run leaves the
\* store and every other file as they are and ends at once with exit(1),
\* without normalization and without output.
C2_SourceUnavailableExits ==
    [][(pc = "fetched" /\ ~download_count.some) =>
        (files' = files /\ pc' = "exit" /\ exit_status' = 1
            /\ raised' = "SystemExit")]_vars

C2_Witness ==
    pc = "exit" /\ args_fetch /\ raised = "SystemExit" /\ StoreLoads

\* generate_dfs_with_summary has returned its results
Generated == pc = "chart_daily" /\ gen.ran

\* C3, as claimed: the daily output has exactly one entry for every one of
\* the 30 calendar days that end today.
C3_OneEntryPerWindowDate ==
    (Generated /\ df.cols /\ Len(df.rows) >= 1) =>
        /\ df_daily.cols
        /\ Len(df_daily.rows) = WindowDays
        /\ \A n \in (gen.day - WindowDays + 1)..gen.day :
             Cardinality({i \in 1..Len(df_daily.rows) :
                            df_daily.rows[i].date = DateOfDay(n)}) = 1

\* C3, amended: the daily output has exactly one entry for every reading of
\* the series whose date (at midnight) is not before now - 30 days, and no
\* entry for any other date, also not for a date of the window.
C3_OneEntryPerRecentReading ==
    (Generated /\ gen.ok) =>
        /\ df_daily.cols
        /\ \A n \in 0..MaxDay :
             LET recent == n > gen.day - WindowDays
                             \/ (n = gen.day - WindowDays /\ gen.tod = 0)
                 readings == {i \in 1..Len(df.rows) :
                                CsvCell(df.rows[i].date) = StrfYmd(DateOfDay(n))}
                 entries == {i \in 1..Len(df_daily.rows) :
                                df_daily.rows[i].date = DateOfDay(n)}
             IN  Cardinality(entries) =
                    IF recent /\ readings # {} THEN 1 ELSE 0

C3_Witness ==
    /\ Generated /\ gen.ok
    /\ Len(df.rows) = 3 /\ Len(df_daily.rows) = 2

\* the position in rows of the reading with the latest date before dt, 0
\* when there is none
Previous(rows, dt) ==
    LET earlier == {i \in 1..Len(rows) : DtKey(rows[i].date) < DtKey(dt)}
    IN  IF earlier = {} THEN 0
        ELSE CHOOSE i \in earlier :
                \A j \in earlier : DtKey(rows[j].date) <= DtKey(rows[i].date)

\* C4, as claimed: a date of the window without a reading, but with an
\* earlier reading, is reported with the delta 0.
C4_CarryForward ==
    (Generated /\ gen.ok) =>
        \A n \in (gen.day - WindowDays + 1)..gen.day :
            ((\A i \in 1..Len(gdf) : gdf[i].date # DateOfDay(n))
              /\ Previous(gdf, DateOfDay(n)) # 0)
            => \E i \in 1..Len(df_daily.rows) :
                  /\ df_daily.rows[i].date = DateOfDay(n)
                  /\ df_daily.rows[i].daily = 0

\* C4, amended: a date without a reading is not reported at all, and the
\* whole increase since the nearest earlier reading is reported at the next
\* date that has a reading (0 at the earliest reading).
C4_IncreaseAtNextReading ==
    (Generated /\ gen.ok) =>
        /\ \A n \in 0..MaxDay :
             (\A i \in 1..Len(gdf) : gdf[i].date # DateOfDay(n))
             => \A i \in 1..Len(df_daily.rows) :
                   df_daily.rows[i].date # DateOfDay(n)
        /\ \A i \in 1..Len(df_daily.rows) :
             LET r == df_daily.rows[i]
                 cur == CHOOSE k \in 1..Len(gdf) : gdf[k].date = r.date
                 p == Previous(gdf, r.date)
             IN  r.daily = IF p = 0 THEN 0
                           ELSE gdf[cur].download_count.v - gdf[p].download_count.v

C4_Witness ==
    /\ Generated /\ gen.ok
    /\ \E i \in 1..Len(df_daily.rows) :
         /\ df_daily.rows[i].daily = 490
         /\ df_daily.rows[i].date = DateOfDay(gen.day)
         /\ Previous(gdf, df_daily.rows[i].date) # 0
         /\ gdf[Previous(gdf, df_daily.rows[i].date)].date # DateOfDay(gen.day - 1)

\* C5: empty history: the run computes 0 as the latest value, a daily output
\* with the delta 0 for every date of the window and a monthly summary with
\* the total row 0, and goes on through the charts without raising.
C5_EmptyHistoryCompletes ==
    [][(Generated /\ Len(df.rows) = 0) =>
        /\ total_download = 0
        /\ df_daily.cols
        /\ Len(df_daily.rows) = WindowDays
        /\ \A i \in 1..Len(df_daily.rows) : df_daily.rows[i].daily = 0
        /\ df_monthly.cols
        /\ \E i \in 1..Len(df_monthly.rows) :
              /\ df_monthly.rows[i].month_year = TotalResult
              /\ df_monthly.rows[i].monthly = 0
        /\ pc' = "chart_monthly"
        /\ raised' = "none"]_vars

\* C6: the deltas of N >= 1 readings in ascending order of date: N entries,
\* the first 0, every later one the count minus the count before it, also
\* when that is negative, and their sum is the last count minus the first.
C6_ComputeDeltas ==
    (Generated /\ gen.ok) =>
        /\ Len(gdf) >= 1
        /\ Len(gdf) = Len(df.rows)
        /\ \A r \in 1..Len(df.rows) : \E i \in 1..Len(gdf) :
              /\ gdf[i].index = df.rows[r].index
              /\ StrfYmd(gdf[i].date) = CsvCell(df.rows[r].date)
              /\ gdf[i].download_count = df.rows[r].download_count
        /\ \A i \in 1..(Len(gdf) - 1) : DtKey(gdf[i].date) <= DtKey(gdf[i + 1].date)
        /\ gdf[1].daily_downloads = 0
        /\ \A i \in 2..Len(gdf) :
              gdf[i].daily_downloads =
                 gdf[i].download_count.v - gdf[i - 1].download_count.v
        /\ SumSeq([i \in 1..Len(gdf) |-> gdf[i].daily_downloads])
              = gdf[Len(gdf)].download_count.v - gdf[1].download_count.v

C6_Witness ==
    /\ Generated /\ gen.ok
    /\ Len(gdf) = 3
    /\ \E i \in 2..Len(gdf) :
          /\ gdf[i - 1].download_count.v = 500
          /\ gdf[i].download_count.v = 10
          /\ gdf[i].daily_downloads = -490

\* C7: the monthly summary has one row for every month of the deltas, with
\* the sum of the deltas of the month, and one 'Total Result' row with the
\* sum of all the deltas, which is the sum of the month rows.
C7_AggregateMonthly ==
    (Generated /\ gen.ok) =>
        LET rows == df_monthly.rows
            months == {StrfYearMonth(gdf[i].date) : i \in 1..Len(gdf)}
            MonthSum(k) ==
                SumSeq([i \in 1..Len(gdf) |->
                          IF StrfYearMonth(gdf[i].date) = k
                          THEN gdf[i].daily_downloads ELSE 0])
            RowsOf(k) == {j \in 1..Len(rows) : rows[j].month_year = k}
        IN  /\ df_monthly.cols
            /\ Len(rows) = Cardinality(months) + 1
            /\ \A k \in months :
                  /\ Cardinality(RowsOf(k)) = 1
                  /\ \A j \in RowsOf(k) : rows[j].monthly = MonthSum(k)
            /\ Cardinality(RowsOf(TotalResult)) = 1
            /\ \A j \in RowsOf(TotalResult) :
                  /\ rows[j].monthly
                        = SumSeq([i \in 1..Len(gdf) |-> gdf[i].daily_downloads])
                  /\ rows[j].monthly
                        = SumSeq([i \in 1..Len(rows) |->
                                    IF i = j THEN 0 ELSE rows[i].monthly])

C7_Witness ==
    /\ Generated /\ gen.ok
    /\ Len(gdf) = 3
    /\ Len(df_monthly.rows) = 3
    /\ \E j \in 1..Len(df_monthly.rows) :
          /\ df_monthly.rows[j].month_year = TotalResult
          /\ df_monthly.rows[j].monthly < 0
    /\ \E j \in 1..Len(df_monthly.rows) :
          /\ df_monthly.rows[j].month_year # TotalResult
          /\ df_monthly.rows[j].monthly < 0

\* a row of the series read from the Excel file that is no reading: its date
\* is no calendar date, or its count is no number
Malformed(row) ==
    \/ \A n \in 0..MaxDay : CsvCell(row.date) # StrfYmd(DateOfDay(n))
    \/ ~(row.download_count.t = "int" \/ AllDigits(row.download_count.s))

SecondRun == pc = "generate" /\ ~args_fetch /\ prev.valid /\ prev.json = json_file

\* C9, as claimed: two successive runs without --fetch on the same store
\* give the same daily output, the same monthly output and the same latest
\* value, and no run without --fetch changes the store.
C9_Idempotence ==
    [][/\ SecondRun =>
            /\ df_daily' = prev.daily
            /\ df_monthly' = prev.monthly
            /\ total_download' = prev.total
       /\ (~args_fetch /\ pc \notin {"idle", "exit"}) => json_file' = json_file]_vars

\* C9, amended: two successive runs without --fetch on the same store give
\* the same monthly output and the same latest value, and the same daily
\* output when no reading is before now - 30 days in one run and not in the
\* other; no run without --fetch changes the store.
C9_IdempotenceSameWindow ==
    [][/\ SecondRun =>
            /\ df_monthly' = prev.monthly
            /\ total_download' = prev.total
            /\ LET Recent(n, g) == n > g.day - WindowDays
                                     \/ (n = g.day - WindowDays /\ g.tod = 0)
               IN  (\A n \in 0..MaxDay :
                       (\E i \in 1..Len(gdf') : gdf'[i].date = DateOfDay(n))
                       => (Recent(n, gen') <=> Recent(n, prev.gen)))
                   => df_daily' = prev.daily
       /\ (~args_fetch /\ pc \notin {"idle", "exit"}) => json_file' = json_file]_vars

C9_Witness ==
    /\ Generated /\ gen.ok /\ ~args_fetch
    /\ prev.valid /\ prev.json = json_file
    /\ prev.gen.day # gen.day
    /\ Len(df_daily.rows) >= 1
    /\ df_daily = prev.daily

====
